---- MODULE Spec2Model ----
(***************************************************************************)
(* Price negotiation and booking conversion of AUTOPORT                    *)
(* (crud/negotiations_crud.py, routers/negotiations.py, database.py).      *)
(*                                                                         *)
(* Every HTTP request runs in its own database session (database.get_db):  *)
(* the handler first reads rows (the Begin... actions, which also evaluate *)
(* every guard and early return of the handler on what was read) and the   *)
(* session is committed or rolled back when the request ends (Finish).     *)
(* Rows are written by primary key (ORM unit of work), so a commit         *)
(* overwrites the columns the handler assigned with values computed from   *)
(* what the handler read.  Times are in hours.                             *)
(***************************************************************************)
EXTENDS Integers, FiniteSets, Sequences, Bags, TLC

\* ---- bounds of the model ----
MaxNegs == 3
MaxTicks == 1
MaxRaces == 1

\* ---- program constants ----
OfferWindow == 24
CounterWindow == 12

Workers == {1, 2}
Passengers == {"p1", "p2"}
Drivers == {"d1", "d2"}
NegIds == 1..MaxNegs

\* inputs of the requests
OfferPrices == {16000, 20000}
SeatChoices == {2}
CounterPrices == {16000, 18000, 20000}
Responses == {"accept", "reject"}
FinalPriceChoices == {{}, {60000000}}
BulkIdSets == {NegIds}

\* the one trip of the model, as stored after its creation
TripInit ==
  [driver_id |-> "d1", price_per_seat |-> 20000, total_seats_offered |-> 3,
   available_seats |-> 3, status |-> "SCHEDULED", price_negotiable |-> TRUE]

\* the same trip published without price negotiation
TripChoices == {TripInit, [TripInit EXCEPT !.price_negotiable = FALSE]}

\* users that call create_price_negotiation: the passengers and, with the
\* passenger role, the driver of the trip
Creators == Passengers \cup {TripInit.driver_id}

\* largest value a Numeric(10, 2) column stores, in whole currency units
MaxNumeric == 99999999

VARIABLES trip, negs, bookings, now, tx, reply, races, settings,
          admins, mfa_tokens, password, user_info

vars == <<trip, negs, bookings, now, tx, reply, races, settings,
          admins, mfa_tokens, password, user_info>>

\* the admin accounts, their MFA codes, and the arguments of a call of
\* validate_password_strength
authVars == <<admins, mfa_tokens, password, user_info>>

\* a slot of the price_negotiations table that holds no row yet
NoNeg ==
  [status |-> "NONE", passenger_id |-> "none", original_price |-> 0,
   proposed_price |-> 0, final_price |-> {}, seats_requested |-> 0,
   expires_at |-> 0, responded_at |-> {}, origin |-> "none",
   supersedes |-> 0, responses |-> 0, via |-> "none"]

\* the slot of a row that cancel_negotiation deleted
DeletedNeg == [NoNeg EXCEPT !.status = "DELETED"]

\* a session with no request in flight
IdleTx ==
  [op |-> "idle", id |-> 0, actor |-> "none", price |-> {}, seats |-> 0,
   resp |-> "none", seen_avail |-> 0, acts |-> {}, exps |-> {}]

\* HTTP status the router answers for an outcome of the crud function
HttpStatus(outcome) ==
  CASE outcome = "ok" -> 200
    [] outcome \in {"not_found", "expired", "stale", "conversion_failed"} -> 404
    [] outcome \in {"multiple_rows", "error"} -> 500
    [] outcome = "unauthorized" -> 401
    [] outcome = "locked" -> 423
    [] OTHER -> 400

\* what the most recent finished call answered: the HTTP status of a
\* request, or the count a run of expire_old_negotiations returned; run is 2
\* when that run directly followed another run, whose count is then prev
NoReply == [kind |-> "none", status |-> 0, count |-> 0, run |-> 0, prev |-> 0]

Answer(op, outcome) ==
  [kind |-> "http", status |-> HttpStatus(outcome), count |-> 0, run |-> 0,
   prev |-> 0]

InFlight == {w \in Workers : tx[w].op # "idle"}

\* a new request is served by the first session that is free; races counts
\* the requests that started while another one was in flight
Free(w) ==
  /\ tx[w].op = "idle"
  /\ \A v \in Workers : v < w => tx[v].op # "idle"
  /\ InFlight # {} => races < MaxRaces

Overlap ==
  /\ races' = IF InFlight # {} THEN races + 1 ELSE races
  /\ settings' = settings
  /\ UNCHANGED authVars

\* a row exists in price_negotiations
RowExists(n) == negs[n].status \notin {"NONE", "DELETED"}

Allocated == {n \in NegIds : negs[n].status # "NONE"}

\* requests in flight that will INSERT a negotiation on commit
Inserting(w) == tx[w].op \in {"create", "counter"}

\* a fresh primary key is available for one more INSERT
CanInsert ==
  Cardinality(Allocated) + Cardinality({w \in Workers : Inserting(w)}) < MaxNegs

NextId == CHOOSE n \in NegIds : negs[n].status = "NONE" /\
             \A m \in NegIds : negs[m].status = "NONE" => n <= m

RECURSIVE SumSeats(_, _)
SumSeats(S, f) ==
  IF S = {} THEN 0
  ELSE LET n == CHOOSE x \in S : TRUE IN f[n].seats_requested + SumSeats(S \ {n}, f)

\* what get_auto_accept_settings returns for every driver: the rules
\* setup_auto_accept_rules builds are never stored and never read
get_auto_accept_settings ==
  [enable_auto_accept |-> FALSE, min_price_percentage |-> 80,
   max_discount_amount |-> 10000]

\* decision of check_auto_accept_rules on the given settings and prices
\* (price_percentage is proposed / price * 100 in exact decimal arithmetic;
\*  min_percentage is an integer, so the comparison is on its integer part)
AutoAcceptDecision_strict(rules, price_per_seat, proposed_price) ==
  /\ rules.enable_auto_accept
  /\ (proposed_price * 100) \div price_per_seat > rules.min_price_percentage
  /\ price_per_seat - proposed_price <= rules.max_discount_amount

AutoAcceptDecision(rules, price_per_seat, proposed_price) ==
  IF ~rules.enable_auto_accept THEN FALSE
  ELSE LET discount_amount == price_per_seat - proposed_price
           price_percentage_floor == (proposed_price * 100) \div price_per_seat
       IN  price_percentage_floor >= rules.min_price_percentage
           /\ discount_amount <= rules.max_discount_amount

\* booking_crud.get_booking_by_trip_and_passenger
get_booking_by_trip_and_passenger(p) ==
  \E b \in BagToSet(bookings) : b.passenger_id = p /\ b.status = "CONFIRMED"

\* admin ids, each standing for the email address of an admin
AdminIds == {"a1", "a2"}

\* a users row with an admin role: rows counts the rows that carry the email
NoAdmin == [rows |-> 0, failed_login_attempts |-> 0, locked_until |-> {}]

\* user_info of a call of validate_password_strength that passes none
NoUserInfo == [given |-> FALSE, email |-> <<>>, name |-> <<>>]

\* no admin account, no MFA code, no password under validation
NoAuthState ==
  /\ admins = [a \in AdminIds |-> NoAdmin]
  /\ mfa_tokens = {}
  /\ password = <<>>
  /\ user_info = NoUserInfo

Init ==
  /\ trip \in TripChoices
  /\ negs = [n \in NegIds |-> NoNeg]
  /\ bookings = EmptyBag
  /\ now = 0
  /\ tx = [w \in Workers |-> IdleTx]
  /\ reply = NoReply
  /\ races = 0
  /\ settings = get_auto_accept_settings
  /\ NoAuthState

\* ---- helpers shared by the handlers ----

\* the transaction of worker w ends; every field of the session is dropped
EndTx(w) ==
  /\ tx' = [tx EXCEPT ![w] = IdleTx]
  /\ UNCHANGED <<races, settings, authVars>>

\* a call whose guards fail on what it reads: the crud function raises or
\* returns None, the router raises, get_db rolls the session back; the call
\* is served like any other, by a session that is free
Refuse(op, outcome) ==
  /\ \E w \in Workers : Free(w)
  /\ reply' = Answer(op, outcome)
  /\ UNCHANGED <<trip, negs, bookings, now, tx, races, settings, authVars>>

\* the flush finds the row gone (StaleDataError): the crud function returns
\* None, the router raises 404 and get_db rolls the session back
Rollback(w) ==
  /\ EndTx(w)
  /\ reply' = Answer(tx[w].op, "stale")
  /\ UNCHANGED <<trip, negs, bookings, now>>

\* the Booking row create_booking_from_negotiation adds for negotiation n
BookingOf(n, rec, final_price) ==
  [neg |-> n, passenger_id |-> rec.passenger_id,
   seats_booked |-> rec.seats_requested,
   total_price |-> final_price * rec.seats_requested,
   status |-> "CONFIRMED"]

\* the Trip row create_booking_from_negotiation writes: the session's copy of
\* available_seats (read when the negotiation was loaded) minus the seats
TripAfterBooking(seen_avail, seats) ==
  [trip EXCEPT !.available_seats = seen_avail - seats,
               !.status = IF seen_avail - seats <= 0 THEN "FULL" ELSE @]

\* the price an accept stores as final_price
FinalPriceOf(rec, final_price) ==
  IF final_price = {} \/ final_price = {0} THEN rec.proposed_price
  ELSE CHOOSE v \in final_price : TRUE

\* columns respond_to_negotiation assigns on accept / reject; responses
\* counts the calls of respond_to_negotiation that returned the row
RespondedRow(rec, resp, final_price) ==
  IF resp = "accept"
  THEN [rec EXCEPT !.status = "ACCEPTED",
                   !.final_price = {FinalPriceOf(rec, final_price)},
                   !.responded_at = {now},
                   !.responses = @ + 1]
  ELSE [rec EXCEPT !.status = "REJECTED", !.responded_at = {now},
                   !.responses = @ + 1]

\* columns accept_counter_offer assigns
CounterAcceptedRow(rec) ==
  [rec EXCEPT !.status = "ACCEPTED", !.final_price = {rec.proposed_price},
              !.responded_at = {now}, !.via = "accept_counter"]

\* ---- create_price_negotiation ----

\* a create that would let an offer at the listed price through
CreateOutcome_price_may_equal(p, price, seats) ==
  LET pending == {n \in NegIds : negs[n].status = "PENDING" /\ negs[n].passenger_id = p}
  IN  IF trip.status # "SCHEDULED" THEN "trip_unavailable"
      ELSE IF ~trip.price_negotiable THEN "not_negotiable"
      ELSE IF trip.driver_id = p THEN "own_trip"
      ELSE IF Cardinality(pending) > 1 THEN "multiple_rows"
      ELSE IF pending # {} THEN "dup_pending"
      ELSE IF get_booking_by_trip_and_passenger(p) THEN "has_booking"
      ELSE IF price > trip.price_per_seat THEN "price_not_lower"
      ELSE IF seats > trip.available_seats THEN "seats_exceed"
      ELSE "ok"

CreateOutcome(p, price, seats) ==
  LET pending == {n \in NegIds : negs[n].status = "PENDING" /\ negs[n].passenger_id = p}
  IN  IF trip.status # "SCHEDULED" THEN "trip_unavailable"
      ELSE IF ~trip.price_negotiable THEN "not_negotiable"
      ELSE IF trip.driver_id = p THEN "own_trip"
      ELSE IF Cardinality(pending) > 1 THEN "multiple_rows"
      ELSE IF pending # {} THEN "dup_pending"
      ELSE IF get_booking_by_trip_and_passenger(p) THEN "has_booking"
      ELSE IF price >= trip.price_per_seat THEN "price_not_lower"
      ELSE IF seats > trip.available_seats THEN "seats_exceed"
      ELSE "ok"

RefuseCreate(p, price, seats) ==
  /\ CreateOutcome(p, price, seats) # "ok"
  /\ Refuse("create", CreateOutcome(p, price, seats))

\* the request names a trip id that is not stored: 404 "Trip not found."
RefuseCreateUnknownTrip(p, price, seats) ==
  Refuse("create", "not_found")

BeginCreate(w, p, price, seats) ==
  /\ Free(w)
  /\ CreateOutcome(p, price, seats) = "ok"
  /\ CanInsert
  /\ tx' = [tx EXCEPT ![w] = [IdleTx EXCEPT !.op = "create", !.actor = p,
                                !.price = {price}, !.seats = seats,
                                !.seen_avail = trip.available_seats]]
  /\ Overlap
  /\ UNCHANGED <<trip, negs, bookings, now, reply>>

\* the row create_price_negotiation inserts
NewOffer(p, price, seats) ==
  [NoNeg EXCEPT !.status = "PENDING", !.passenger_id = p,
                !.original_price = trip.price_per_seat,
                !.proposed_price = price, !.seats_requested = seats,
                !.expires_at = now + OfferWindow, !.origin = "offer"]

FinishCreate(w) ==
  LET t == tx[w]
      price == CHOOSE v \in t.price : TRUE
      row == NewOffer(t.actor, price, t.seats)
  IN  /\ t.op = "create"
      /\ EndTx(w)
      /\ reply' = Answer("create", "ok")
      /\ now' = now
      /\ IF AutoAcceptDecision(settings, trip.price_per_seat, price)
         THEN /\ negs' = [negs EXCEPT ![NextId] = RespondedRow(row, "accept", {price})]
              /\ bookings' = bookings (+) SetToBag({BookingOf(NextId, row, price)})
              /\ trip' = TripAfterBooking(t.seen_avail, t.seats)
         ELSE /\ negs' = [negs EXCEPT ![NextId] = row]
              /\ UNCHANGED <<trip, bookings>>

\* ---- respond_to_negotiation ----

RespondOutcome(n, d) ==
  IF negs[n].status # "PENDING" THEN "not_found"
  ELSE IF trip.driver_id # d THEN "not_found"
  ELSE IF negs[n].expires_at <= now THEN "expired"
  ELSE "ok"

\* also the expired case: EXPIRED is flushed, None is returned, the router
\* raises 404 and the flushed status is rolled back
RefuseRespond(n, d) ==
  /\ RespondOutcome(n, d) # "ok"
  /\ Refuse("respond", RespondOutcome(n, d))

\* the INSERT of the booking overflows bookings.total_price
ConversionFails(n, final_price) ==
  FinalPriceOf(negs[n], final_price) * negs[n].seats_requested > MaxNumeric

\* an accept whose create_booking_from_negotiation raises at its flush:
\* respond_to_negotiation catches the exception and returns None, the router
\* raises 404 and nothing of the session is committed
FailConversion(n, d, final_price) ==
  /\ RespondOutcome(n, d) = "ok"
  /\ ConversionFails(n, final_price)
  /\ Refuse("respond", "conversion_failed")

BeginRespond(w, n, d, resp, final_price) ==
  /\ Free(w)
  /\ RespondOutcome(n, d) = "ok"
  /\ resp = "accept" => ~ConversionFails(n, final_price)
  /\ tx' = [tx EXCEPT ![w] = [IdleTx EXCEPT !.op = "respond", !.id = n,
                                !.resp = resp,
                                !.price = IF resp = "accept" THEN final_price ELSE {},
                                !.seen_avail = trip.available_seats]]
  /\ Overlap
  /\ UNCHANGED <<trip, negs, bookings, now, reply>>

\* create_booking_from_negotiation for row n in the session of worker w
create_booking_from_negotiation(w, n, final_price) ==
  /\ bookings' = bookings (+) SetToBag({BookingOf(n, negs[n], final_price)})
  /\ trip' = TripAfterBooking(tx[w].seen_avail, negs[n].seats_requested)

FinishRespond(w) ==
  LET t == tx[w]
  IN  /\ t.op = "respond"
      /\ IF RowExists(t.id)
         THEN /\ EndTx(w)
              /\ reply' = Answer("respond", "ok")
              /\ now' = now
              /\ negs' = [negs EXCEPT ![t.id] = RespondedRow(@, t.resp, t.price)]
              /\ IF t.resp = "accept"
                 THEN create_booking_from_negotiation(w, t.id, FinalPriceOf(negs[t.id], t.price))
                 ELSE UNCHANGED <<trip, bookings>>
         ELSE Rollback(w)

\* ---- create_counter_offer ----

CounterOutcome_inclusive(n, d, counter_price) ==
  IF negs[n].status # "PENDING" THEN "not_found"
  ELSE IF trip.driver_id # d THEN "not_found"
  ELSE IF counter_price > negs[n].original_price THEN "counter_not_lower"
  ELSE IF counter_price < negs[n].proposed_price THEN "counter_not_higher"
  ELSE "ok"

CounterOutcome(n, d, counter_price) ==
  IF negs[n].status # "PENDING" THEN "not_found"
  ELSE IF trip.driver_id # d THEN "not_found"
  ELSE IF counter_price >= negs[n].original_price THEN "counter_not_lower"
  ELSE IF counter_price <= negs[n].proposed_price THEN "counter_not_higher"
  ELSE "ok"

RefuseCounter(n, d, counter_price) ==
  /\ CounterOutcome(n, d, counter_price) # "ok"
  /\ Refuse("counter", CounterOutcome(n, d, counter_price))

BeginCounter(w, n, d, counter_price) ==
  /\ Free(w)
  /\ CounterOutcome(n, d, counter_price) = "ok"
  /\ CanInsert
  /\ tx' = [tx EXCEPT ![w] = [IdleTx EXCEPT !.op = "counter", !.id = n,
                                !.price = {counter_price}]]
  /\ Overlap
  /\ UNCHANGED <<trip, negs, bookings, now, reply>>

\* a counter-offer row that would live as long as a first offer
NewCounter_long(n, rec, counter_price) ==
  [NoNeg EXCEPT !.status = "PENDING", !.passenger_id = rec.passenger_id,
                !.original_price = rec.original_price,
                !.proposed_price = counter_price,
                !.seats_requested = rec.seats_requested,
                !.expires_at = now + OfferWindow,
                !.origin = "counter", !.supersedes = n]

\* the row create_counter_offer inserts for the original row rec
NewCounter(n, rec, counter_price) ==
  [NoNeg EXCEPT !.status = "PENDING", !.passenger_id = rec.passenger_id,
                !.original_price = rec.original_price,
                !.proposed_price = counter_price,
                !.seats_requested = rec.seats_requested,
                !.expires_at = now + CounterWindow,
                !.origin = "counter", !.supersedes = n]

FinishCounter(w) ==
  LET t == tx[w]
      counter_price == CHOOSE v \in t.price : TRUE
  IN  /\ t.op = "counter"
      /\ IF RowExists(t.id)
         THEN /\ EndTx(w)
              /\ reply' = Answer("counter", "ok")
              /\ negs' = [negs EXCEPT
                            ![t.id] = [@ EXCEPT !.status = "REJECTED",
                                                !.responded_at = {now}],
                            ![NextId] = NewCounter(t.id, negs[t.id], counter_price)]
              /\ UNCHANGED <<trip, bookings, now>>
         ELSE Rollback(w)

\* ---- accept_counter_offer ----

AcceptCounterOutcome(n, p) ==
  IF negs[n].status # "PENDING" \/ negs[n].passenger_id # p THEN "not_found"
  ELSE IF negs[n].expires_at <= now THEN "expired"
  ELSE "ok"

RefuseAcceptCounter(n, p) ==
  /\ AcceptCounterOutcome(n, p) # "ok"
  /\ Refuse("accept_counter", AcceptCounterOutcome(n, p))

BeginAcceptCounter(w, n, p) ==
  /\ Free(w)
  /\ AcceptCounterOutcome(n, p) = "ok"
  /\ tx' = [tx EXCEPT ![w] = [IdleTx EXCEPT !.op = "accept_counter", !.id = n,
                                !.resp = "accept",
                                !.seen_avail = trip.available_seats]]
  /\ Overlap
  /\ UNCHANGED <<trip, negs, bookings, now, reply>>

FinishAcceptCounter(w) ==
  LET t == tx[w]
  IN  /\ t.op = "accept_counter"
      /\ IF RowExists(t.id)
         THEN /\ EndTx(w)
              /\ reply' = Answer("accept_counter", "ok")
              /\ now' = now
              /\ negs' = [negs EXCEPT ![t.id] = CounterAcceptedRow(@)]
              /\ create_booking_from_negotiation(w, t.id, negs[t.id].proposed_price)
         ELSE Rollback(w)

\* ---- cancel_negotiation ----

\* a cancel that would not look at who owns the row
CancelOutcome_any_passenger(n, p) ==
  IF negs[n].status # "PENDING" THEN "not_found"
  ELSE "ok"

CancelOutcome(n, p) ==
  IF negs[n].status # "PENDING" \/ negs[n].passenger_id # p THEN "not_found"
  ELSE "ok"

RefuseCancel(n, p) ==
  /\ CancelOutcome(n, p) # "ok"
  /\ Refuse("cancel", CancelOutcome(n, p))

BeginCancel(w, n, p) ==
  /\ Free(w)
  /\ CancelOutcome(n, p) = "ok"
  /\ tx' = [tx EXCEPT ![w] = [IdleTx EXCEPT !.op = "cancel", !.id = n]]
  /\ Overlap
  /\ UNCHANGED <<trip, negs, bookings, now, reply>>

\* DELETE by primary key: the row goes whatever its status has become, and
\* a row already gone is only a warning
FinishCancel(w) ==
  LET t == tx[w]
  IN  /\ t.op = "cancel"
      /\ EndTx(w)
      /\ reply' = Answer("cancel", "ok")
      /\ negs' = [negs EXCEPT ![t.id] = IF RowExists(t.id) THEN DeletedNeg ELSE @]
      /\ UNCHANGED <<trip, bookings, now>>

\* ---- expire_old_negotiations ----

Stale_any_status == {n \in NegIds : RowExists(n) /\ negs[n].expires_at <= now}

\* rows the UPDATE ... WHERE status = PENDING AND expires_at <= now matches
Stale == {n \in NegIds : negs[n].status = "PENDING" /\ negs[n].expires_at <= now}

expire_old_negotiations ==
  /\ negs' = [n \in NegIds |->
                IF n \in Stale THEN [negs[n] EXCEPT !.status = "EXPIRED"]
                ELSE negs[n]]
  /\ reply' = [kind |-> "sweep", status |-> 0, count |-> Cardinality(Stale),
               run |-> IF reply.kind = "sweep" THEN 2 ELSE 1,
               prev |-> IF reply.kind = "sweep" THEN reply.count ELSE 0]
  /\ UNCHANGED <<trip, bookings, now, tx, races, settings, authVars>>

\* ---- bulk_respond_negotiations ----

BulkActs(d, ids) == {n \in ids : RespondOutcome(n, d) = "ok"}
BulkExps(d, ids) == {n \in ids : RespondOutcome(n, d) = "expired"}

\* no id of the list passes the guards of respond_to_negotiation
BulkNothing(d, ids) ==
  /\ BulkActs(d, ids) \cup BulkExps(d, ids) = {}
  /\ Refuse("bulk", "ok")

BeginBulk(w, d, ids, resp) ==
  /\ Free(w)
  /\ BulkActs(d, ids) \cup BulkExps(d, ids) # {}
  /\ tx' = [tx EXCEPT ![w] =
              [IdleTx EXCEPT !.op = "bulk", !.resp = resp,
                 !.seen_avail = trip.available_seats,
                 !.acts = BulkActs(d, ids), !.exps = BulkExps(d, ids)]]
  /\ Overlap
  /\ UNCHANGED <<trip, negs, bookings, now, reply>>

RECURSIVE BulkBookings(_, _)
BulkBookings(S, f) ==
  IF S = {} THEN EmptyBag
  ELSE LET n == CHOOSE x \in S : TRUE
       IN  SetToBag({BookingOf(n, f[n], f[n].proposed_price)}) (+) BulkBookings(S \ {n}, f)

\* every respond of the loop flushes into the one session of the request;
\* a flush that finds its row gone leaves the session inactive and get_db
\* then commits nothing
FinishBulk(w) ==
  LET t == tx[w]
  IN  /\ t.op = "bulk"
      /\ IF \A n \in t.acts \cup t.exps : RowExists(n)
         THEN /\ EndTx(w)
              /\ reply' = Answer("bulk", "ok")
              /\ now' = now
              /\ negs' = [n \in NegIds |->
                            IF n \in t.acts THEN RespondedRow(negs[n], t.resp, {})
                            ELSE IF n \in t.exps
                                 THEN [negs[n] EXCEPT !.status = "EXPIRED"]
                                 ELSE negs[n]]
              /\ IF t.resp = "accept" /\ t.acts # {}
                 THEN /\ bookings' = bookings (+) BulkBookings(t.acts, negs)
                      /\ trip' = TripAfterBooking(t.seen_avail, SumSeats(t.acts, negs))
                 ELSE UNCHANGED <<trip, bookings>>
         ELSE Rollback(w)

\* ---- the clock ----

\* a step of the clock is one offer window long
Tick ==
  /\ now < MaxTicks * OfferWindow
  /\ now' = now + OfferWindow
  /\ reply' = NoReply
  /\ UNCHANGED <<trip, negs, bookings, tx, races, settings, authVars>>

Next ==
  \/ \E p \in Creators, price \in OfferPrices, seats \in SeatChoices :
       RefuseCreate(p, price, seats)
  \/ \E p \in Creators, price \in OfferPrices, seats \in SeatChoices :
       RefuseCreateUnknownTrip(p, price, seats)
  \/ \E w \in Workers, p \in Creators, price \in OfferPrices, seats \in SeatChoices :
       BeginCreate(w, p, price, seats)
  \/ \E w \in Workers : FinishCreate(w)
  \/ \E n \in NegIds, d \in Drivers : RefuseRespond(n, d)
  \/ \E w \in Workers, n \in NegIds, d \in Drivers, resp \in Responses,
        final_price \in FinalPriceChoices :
       BeginRespond(w, n, d, resp, final_price)
  \/ \E n \in NegIds, d \in Drivers, final_price \in FinalPriceChoices :
       FailConversion(n, d, final_price)
  \/ \E w \in Workers : FinishRespond(w)
  \/ \E n \in NegIds, d \in Drivers, counter_price \in CounterPrices :
       RefuseCounter(n, d, counter_price)
  \/ \E w \in Workers, n \in NegIds, d \in Drivers, counter_price \in CounterPrices :
       BeginCounter(w, n, d, counter_price)
  \/ \E w \in Workers : FinishCounter(w)
  \/ \E n \in NegIds, p \in Passengers : RefuseAcceptCounter(n, p)
  \/ \E w \in Workers, n \in NegIds, p \in Passengers : BeginAcceptCounter(w, n, p)
  \/ \E w \in Workers : FinishAcceptCounter(w)
  \/ \E n \in NegIds, p \in Passengers : RefuseCancel(n, p)
  \/ \E w \in Workers, n \in NegIds, p \in Passengers : BeginCancel(w, n, p)
  \/ \E w \in Workers : FinishCancel(w)
  \/ \E d \in Drivers, ids \in BulkIdSets : BulkNothing(d, ids)
  \/ \E w \in Workers, d \in Drivers, ids \in BulkIdSets, resp \in Responses :
       BeginBulk(w, d, ids, resp)
  \/ \E w \in Workers : FinishBulk(w)
  \/ Tick

\* the application as main.py starts it: request handlers only
Spec == Init /\ [][Next]_vars

\* the application with expire_old_negotiations run as a job (no handler and
\* no task of main.py calls it): the requests are served by the first
\* session, one at a time, and the job runs at any moment, also between the
\* read and the commit of a request
NextSweep ==
  \/ \E p \in Creators, price \in OfferPrices, seats \in SeatChoices :
       RefuseCreate(p, price, seats)
  \/ \E p \in Creators, price \in OfferPrices, seats \in SeatChoices :
       RefuseCreateUnknownTrip(p, price, seats)
  \/ \E p \in Creators, price \in OfferPrices, seats \in SeatChoices :
       BeginCreate(1, p, price, seats)
  \/ FinishCreate(1)
  \/ \E n \in NegIds, d \in Drivers : RefuseRespond(n, d)
  \/ \E n \in NegIds, d \in Drivers, resp \in Responses,
        final_price \in FinalPriceChoices :
       BeginRespond(1, n, d, resp, final_price)
  \/ \E n \in NegIds, d \in Drivers, final_price \in FinalPriceChoices :
       FailConversion(n, d, final_price)
  \/ FinishRespond(1)
  \/ \E n \in NegIds, d \in Drivers, counter_price \in CounterPrices :
       RefuseCounter(n, d, counter_price)
  \/ \E n \in NegIds, d \in Drivers, counter_price \in CounterPrices :
       BeginCounter(1, n, d, counter_price)
  \/ FinishCounter(1)
  \/ \E n \in NegIds, p \in Passengers : RefuseAcceptCounter(n, p)
  \/ \E n \in NegIds, p \in Passengers : BeginAcceptCounter(1, n, p)
  \/ FinishAcceptCounter(1)
  \/ \E n \in NegIds, p \in Passengers : RefuseCancel(n, p)
  \/ \E n \in NegIds, p \in Passengers : BeginCancel(1, n, p)
  \/ FinishCancel(1)
  \/ \E d \in Drivers, ids \in BulkIdSets : BulkNothing(d, ids)
  \/ \E d \in Drivers, ids \in BulkIdSets, resp \in Responses :
       BeginBulk(1, d, ids, resp)
  \/ FinishBulk(1)
  \/ Tick
  \/ expire_old_negotiations

SpecSweep == Init /\ [][NextSweep]_vars

\* ---- check_auto_accept_rules over the settings it may be handed ----

\* the settings dictionaries check_auto_accept_rules is run on
PolicySettings ==
  [enable_auto_accept : BOOLEAN, min_price_percentage : {50, 80, 85, 100},
   max_discount_amount : {2000, 3000, 10000}]

PolicyPrices == {15000, 16000, 17000, 20000}

InitPolicy ==
  /\ trip = TripInit
  /\ negs = [n \in NegIds |-> NoNeg]
  /\ bookings = EmptyBag
  /\ now = 0
  /\ tx = [w \in Workers |-> IdleTx]
  /\ reply = NoReply
  /\ races = 0
  /\ settings \in PolicySettings
  /\ NoAuthState

NextPolicy ==
  \/ \E p \in Passengers, price \in PolicyPrices, seats \in SeatChoices :
       RefuseCreate(p, price, seats)
  \/ \E w \in Workers, p \in Passengers, price \in PolicyPrices, seats \in SeatChoices :
       BeginCreate(w, p, price, seats)
  \/ \E w \in Workers : FinishCreate(w)

SpecPolicy == InitPolicy /\ [][NextPolicy]_vars

\* ---- properties ----

OnePendingPerPassenger ==
  \A p \in Passengers :
    Cardinality({n \in NegIds : negs[n].status = "PENDING"
                                 /\ negs[n].passenger_id = p}) <= 1

\* C2: a status of ACCEPTED, REJECTED or EXPIRED is never changed again by
\* any step of any operation
TerminalStatusFinal ==
  [][\A n \in NegIds :
       negs[n].status \in {"ACCEPTED", "REJECTED", "EXPIRED"}
         => negs'[n].status = negs[n].status]_vars

\* C3: the seats of all bookings made from negotiations of the trip never
\* exceed total_seats_offered, and available_seats is never negative
NoOversell ==
  /\ BagCardinality([b \in BagToSet(bookings) |-> bookings[b] * b.seats_booked])
       <= trip.total_seats_offered
  /\ trip.available_seats >= 0

\* C4: of the respond_to_negotiation calls on one negotiation at most one
\* takes effect and reports success
OneResponseWins == \A n \in NegIds : negs[n].responses <= 1

\* C5: a negotiation has exactly one booking made from it when it is
\* ACCEPTED and none otherwise (pending, rejected, expired, cancelled)
OneBookingIffAccepted ==
  \A n \in NegIds :
    BagCardinality([b \in {x \in BagToSet(bookings) : x.neg = n} |-> bookings[b]])
      = IF negs[n].status = "ACCEPTED" THEN 1 ELSE 0

\* C6: accept_counter_offer takes effect only on a negotiation that
\* create_counter_offer created
AcceptCounterOnlyOnCounter ==
  \A n \in NegIds : negs[n].via = "accept_counter" => negs[n].origin = "counter"

\* C8: for a PENDING negotiation and a counter price that is not strictly
\* between proposed_price and original_price, create_counter_offer never gets
\* past its checks and the refused request answers an error and leaves every
\* row as it was; a create_counter_offer that commits stores a counter record
\* whose price is strictly between the two and rejects the original
CounterPriceStrictlyBetween ==
  [][ /\ \A n \in NegIds, d \in Drivers, counter_price \in CounterPrices :
           ( /\ negs[n].status = "PENDING"
             /\ ~( negs[n].proposed_price < counter_price
                   /\ counter_price < negs[n].original_price ) )
           => /\ \A w \in Workers : ~BeginCounter(w, n, d, counter_price)
              /\ RefuseCounter(n, d, counter_price)
                   => /\ reply'.status >= 400
                      /\ negs' = negs
                      /\ tx' = tx
      /\ \A w \in Workers :
           (FinishCounter(w) /\ reply'.status = 200)
           => /\ negs[tx[w].id].proposed_price < negs'[NextId].proposed_price
              /\ negs'[NextId].proposed_price < negs[tx[w].id].original_price
              /\ negs'[NextId].supersedes = tx[w].id
              /\ negs'[tx[w].id].status = "REJECTED" ]_vars

\* C8 witness: a counter record priced strictly between the proposed and the
\* original price has been stored, its original is REJECTED
CounterStored ==
  \E m \in NegIds :
    /\ negs[m].origin = "counter"
    /\ negs[m].status = "PENDING"
    /\ negs[m].supersedes \in NegIds
    /\ negs[negs[m].supersedes].status = "REJECTED"
    /\ negs[negs[m].supersedes].proposed_price < negs[m].proposed_price
    /\ negs[m].proposed_price < negs[m].original_price

\* C9: when a create_counter_offer request ends and its original is still
\* stored, either the original is PENDING and no counter record supersedes
\* it, or the original is REJECTED and exactly one PENDING counter record
\* exists for its passenger
CounterCoupled ==
  [][\A w \in Workers :
       (tx[w].op = "counter" /\ tx'[w].op = "idle" /\ RowExists(tx[w].id))
       => LET n == tx[w].id
              counters == {m \in NegIds :
                             /\ negs'[m].origin = "counter"
                             /\ negs'[m].status = "PENDING"
                             /\ negs'[m].passenger_id = negs[n].passenger_id}
          IN  \/ /\ negs'[n].status = "PENDING"
                 /\ \A m \in NegIds : negs'[m].supersedes # n
              \/ /\ negs'[n].status = "REJECTED"
                 /\ Cardinality(counters) = 1 ]_vars

\* C10: a run of expire_old_negotiations that directly follows another run
\* changes no record and returns 0
SecondSweepIsNoOp ==
  [][(reply.kind = "sweep" /\ expire_old_negotiations)
       => (negs' = negs /\ reply'.count = 0)]_vars

\* C10 witness: a run that expired at least one record was directly followed
\* by a second run, which returned 0 and left the record EXPIRED
SweptTwice ==
  /\ reply.kind = "sweep" /\ reply.run = 2
  /\ reply.prev > 0 /\ reply.count = 0
  /\ \E n \in NegIds : negs[n].status = "EXPIRED"

\* C11: a negotiation that expire_old_negotiations (or an expired respond)
\* has marked EXPIRED is never ACCEPTED afterwards, also when a respond or an
\* accept_counter_offer on it overlaps the run that expires it
ExpiredNeverAccepted ==
  [][\A n \in NegIds :
       negs[n].status = "EXPIRED" => negs'[n].status # "ACCEPTED"]_vars

\* ---- the running application under fair scheduling ----

\* a request that has been read by its handler is carried to its end
FinishSome ==
  \E w \in Workers :
    \/ FinishCreate(w)
    \/ FinishRespond(w)
    \/ FinishCounter(w)
    \/ FinishAcceptCounter(w)
    \/ FinishCancel(w)
    \/ FinishBulk(w)

\* the driver goes on asking to respond to the offers
RespondAttempt == \E n \in NegIds, d \in Drivers : RefuseRespond(n, d)

\* time passes, requests in flight end, respond attempts keep arriving;
\* main.py starts no task that runs expire_old_negotiations
SpecLive ==
  /\ Init
  /\ [][Next]_vars
  /\ WF_vars(Tick)
  /\ WF_vars(FinishSome)
  /\ WF_vars(RespondAttempt)

\* C12: a negotiation that is PENDING past its expires_at eventually stops
\* being PENDING (it is EXPIRED unless it was accepted, rejected or cancelled)
StalePendingEventuallyExpired ==
  \A n \in NegIds :
    (negs[n].status = "PENDING" /\ negs[n].expires_at <= now)
      ~> (negs[n].status # "PENDING")

\* C13: a respond on a negotiation whose deadline has passed is answered
\* with an outcome of its own, different from the answer for a negotiation
\* that is not found or already resolved, and it changes no row
ExpiredAnswerIsDistinct ==
  [][\A n \in NegIds, d \in Drivers :
       (RespondOutcome(n, d) = "expired" /\ RefuseRespond(n, d))
       => /\ reply'.status # HttpStatus("not_found")
          /\ negs' = negs /\ bookings' = bookings]_vars

\* C14: an accept that fails inside create_booking_from_negotiation leaves
\* the negotiation, the bookings and the trip as they were and is answered
\* with an error that is neither a success nor the answer for 'not found'
ConversionFailureIsReported ==
  [][\A n \in NegIds, d \in Drivers, final_price \in FinalPriceChoices :
       FailConversion(n, d, final_price)
       => /\ negs' = negs /\ bookings' = bookings /\ trip' = trip
          /\ reply'.status \notin {HttpStatus("ok"), HttpStatus("not_found")}]_vars

\* C15: a booking is made from a negotiation only while the trip's
\* available_seats, as stored when the accept commits, cover its seats
ConversionRechecksSeats ==
  [][\A b \in BagToSet(bookings') :
       CopiesIn(b, bookings') > CopiesIn(b, bookings)
         => trip.available_seats >= b.seats_booked]_vars

\* C16: with at most one booking per negotiation, available_seats is its
\* initial value minus the seats of the bookings made: no decrement of two
\* overlapping accepts of different negotiations is lost
NoSeatDecrementLost ==
  (\A n \in NegIds :
     BagCardinality([b \in {x \in BagToSet(bookings) : x.neg = n} |-> bookings[b]]) <= 1)
  => trip.available_seats
       = TripInit.available_seats
         - BagCardinality([b \in BagToSet(bookings) |-> bookings[b] * b.seats_booked])

\* C17: no passenger holds a PENDING negotiation and a CONFIRMED booking on
\* the trip at the same time
NoPendingBesideBooking ==
  \A n \in NegIds :
    negs[n].status = "PENDING"
      => ~get_booking_by_trip_and_passenger(negs[n].passenger_id)

\* C18: when no request overlaps another, an offer is stored PENDING with
\* expires_at = now + 24 h and changes neither bookings nor trip; a counter
\* sets the original REJECTED and stores a new PENDING row of the same
\* passenger with the counter price and expires_at = now + 12 h; accepting
\* the counter sets the row ACCEPTED with final_price = proposed_price, adds
\* exactly one booking of seats_requested seats at final_price per seat and
\* lowers available_seats by seats_requested
OfferCounterAcceptEndToEnd ==
  [][\A w \in Workers :
       races = 0 =>
         /\ FinishCreate(w) =>
              /\ negs'[NextId].status = "PENDING"
              /\ negs'[NextId].passenger_id = tx[w].actor
              /\ {negs'[NextId].proposed_price} = tx[w].price
              /\ negs'[NextId].seats_requested = tx[w].seats
              /\ negs'[NextId].expires_at = now + 24
              /\ \A m \in NegIds \ {NextId} : negs'[m] = negs[m]
              /\ bookings' = bookings /\ trip' = trip
         /\ FinishCounter(w) =>
              /\ negs'[tx[w].id].status = "REJECTED"
              /\ negs'[NextId].status = "PENDING"
              /\ negs'[NextId].passenger_id = negs[tx[w].id].passenger_id
              /\ {negs'[NextId].proposed_price} = tx[w].price
              /\ negs'[NextId].seats_requested = negs[tx[w].id].seats_requested
              /\ negs'[NextId].expires_at = now + 12
              /\ bookings' = bookings /\ trip' = trip
         /\ FinishAcceptCounter(w) =>
              LET n == tx[w].id
                  made == bookings' (-) bookings
              IN  /\ negs'[n].status = "ACCEPTED"
                  /\ negs'[n].final_price = {negs[n].proposed_price}
                  /\ BagCardinality(made) = 1
                  /\ BagCardinality(bookings') = BagCardinality(bookings) + 1
                  /\ \A b \in BagToSet(made) :
                       /\ b.passenger_id = negs[n].passenger_id
                       /\ b.seats_booked = negs[n].seats_requested
                       /\ b.total_price = negs[n].proposed_price * negs[n].seats_requested
                       /\ b.status = "CONFIRMED"
                  /\ trip'.available_seats
                       = trip.available_seats - negs[n].seats_requested]_vars

\* the scenario of C18 has run to its end: offer 16000 for 2 seats countered
\* at 18000, counter accepted, one booking of 36000, one seat left
EndToEndReached ==
  /\ races = 0
  /\ negs[1].status = "REJECTED" /\ negs[1].proposed_price = 16000
  /\ negs[1].expires_at = 24
  /\ negs[2].status = "ACCEPTED" /\ negs[2].supersedes = 1
  /\ negs[2].passenger_id = negs[1].passenger_id
  /\ negs[2].proposed_price = 18000 /\ negs[2].final_price = {18000}
  /\ negs[2].expires_at = 12 /\ negs[2].via = "accept_counter"
  /\ \E b \in BagToSet(bookings) :
       /\ bookings = SetToBag({b})
       /\ b.neg = 2 /\ b.seats_booked = 2 /\ b.total_price = 36000
  /\ trip.price_per_seat = 20000 /\ trip.available_seats = 1

\* C19: cancel_negotiation is admitted only for the row's own passenger and
\* only while the row is PENDING; a cancel that is refused answers an error
\* and changes no row, booking or trip; a cancel that succeeds leaves the row
\* not PENDING, leaves every other row alone, creates no booking and leaves
\* the trip as it was
CancelOnlyOwnPending ==
  /\ [](\A n \in NegIds, p \in Passengers :
          LET outcome == CancelOutcome(n, p)
          IN  /\ outcome = "ok"
                   <=> negs[n].status = "PENDING" /\ negs[n].passenger_id = p
              /\ outcome # "ok" => HttpStatus(outcome) >= 400)
  /\ [][/\ \A w \in Workers :
             (tx[w].op = "idle" /\ tx'[w].op = "cancel")
               => /\ \E p \in Passengers : CancelOutcome(tx'[w].id, p) = "ok"
                  /\ negs' = negs /\ bookings' = bookings /\ trip' = trip
        /\ (negs' # negs \/ bookings' # bookings \/ trip' # trip)
             => \E w \in Workers : tx[w].op # "idle" /\ tx'[w].op = "idle"
        /\ \A w \in Workers :
             (tx[w].op = "cancel" /\ FinishCancel(w))
               => /\ reply'.status = 200
                  /\ negs'[tx[w].id].status # "PENDING"
                  /\ \A m \in NegIds \ {tx[w].id} : negs'[m] = negs[m]
                  /\ bookings' = bookings /\ trip' = trip]_vars

\* a passenger has withdrawn an offer: the row is gone, the call answered
\* 200, no booking exists and all seats are still available
OfferWithdrawn ==
  /\ \E n \in NegIds : negs[n].status = "DELETED"
  /\ reply.status = 200
  /\ bookings = EmptyBag
  /\ trip.available_seats = TripInit.available_seats
  /\ trip.status = "SCHEDULED"

\* C20: create_price_negotiation is refused with an error and stores nothing
\* when the trip is unknown, not SCHEDULED or not negotiable, when the caller
\* drives the trip, already has a PENDING negotiation or a CONFIRMED booking
\* on it, offers price_per_seat or more, or asks for more seats than are
\* available; it is refused in no other case, and a create that goes through
\* stores a PENDING row whose original_price is the trip's price_per_seat
CreateRefusedOrPending ==
  /\ [](\A p \in Creators, price \in OfferPrices, seats \in SeatChoices :
          LET bad == \/ trip.status # "SCHEDULED"
                     \/ ~trip.price_negotiable
                     \/ trip.driver_id = p
                     \/ \E n \in NegIds : /\ negs[n].status = "PENDING"
                                          /\ negs[n].passenger_id = p
                     \/ \E b \in BagToSet(bookings) : /\ b.passenger_id = p
                                                      /\ b.status = "CONFIRMED"
                     \/ price >= trip.price_per_seat
                     \/ seats > trip.available_seats
              outcome == CreateOutcome(p, price, seats)
          IN  /\ bad <=> outcome # "ok"
              /\ outcome # "ok" => HttpStatus(outcome) >= 400
              /\ HttpStatus("not_found") >= 400)
  /\ [][/\ \A w \in Workers :
             (tx[w].op = "idle" /\ tx'[w].op = "create")
               => \A price \in tx'[w].price :
                    CreateOutcome(tx'[w].actor, price, tx'[w].seats) = "ok"
        /\ (negs' # negs \/ bookings' # bookings)
             => \E w \in Workers : tx[w].op # "idle" /\ tx'[w].op = "idle"
        /\ \A w \in Workers :
             (tx[w].op = "create" /\ FinishCreate(w))
               => /\ reply'.status < 400
                  /\ negs[NextId].status = "NONE"
                  /\ negs'[NextId].status = "PENDING"
                  /\ negs'[NextId].passenger_id = tx[w].actor
                  /\ negs'[NextId].original_price = trip.price_per_seat
                  /\ \A m \in NegIds \ {NextId} : negs'[m] = negs[m]
                  /\ bookings' = bookings]_vars

\* an offer on a trip that does not allow negotiation was refused with 400
\* and nothing is stored
CreateRefusedNothingStored ==
  /\ ~trip.price_negotiable
  /\ reply.kind = "http" /\ reply.status = 400
  /\ \A n \in NegIds : negs[n] = NoNeg
  /\ bookings = EmptyBag
  /\ \A w \in Workers : tx[w] = IdleTx

\* ---- create_price_negotiation and respond_to_negotiation on every value
\* ---- the request schema lets through ----

\* rules a driver sends to POST /auto-accept/setup
SetupChoices ==
  {r \in PolicySettings :
     r.min_price_percentage = 80 /\ r.max_discount_amount = 10000}

\* setup_auto_accept_rules builds a dictionary of the rules and returns True;
\* the assignment that would store it is commented out, so what
\* get_auto_accept_settings returns stays as it was
setup_auto_accept_rules(d, rules) ==
  /\ \E w \in Workers : Free(w)
  /\ reply' = Answer("setup", "ok")
  /\ settings' = settings
  /\ UNCHANGED <<trip, negs, bookings, now, tx, races, authVars>>

\* PriceNegotiationCreate is a plain dataclass: proposed_price is any
\* Decimal, seats_requested any int
WidePrices == {-1000, 16000}

WideSeats == {-1, 0, 1}

\* the requests served one after the other, by the first session
NextInputs ==
  \/ \E p \in Passengers, price \in WidePrices, seats \in WideSeats :
       RefuseCreate(p, price, seats)
  \/ \E p \in Passengers, price \in WidePrices, seats \in WideSeats :
       BeginCreate(1, p, price, seats)
  \/ FinishCreate(1)
  \/ \E n \in NegIds, d \in Drivers : RefuseRespond(n, d)
  \/ \E n \in NegIds, d \in Drivers, resp \in Responses :
       BeginRespond(1, n, d, resp, {})
  \/ FinishRespond(1)
  \/ \E d \in Drivers, rules \in SetupChoices : setup_auto_accept_rules(d, rules)

SpecInputs == Init /\ [][NextInputs]_vars

\* C21: every stored negotiation has 0 <= proposed_price < original_price
ProposedPriceInRange ==
  \A n \in NegIds :
    RowExists(n)
      => /\ 0 <= negs[n].proposed_price
         /\ negs[n].proposed_price < negs[n].original_price

\* C22: every stored negotiation asks for at least one seat
SeatsRequestedPositive ==
  \A n \in NegIds : RowExists(n) => negs[n].seats_requested >= 1

\* C23: final_price is set exactly on the rows that are ACCEPTED
FinalPriceIffAccepted ==
  \A n \in NegIds :
    RowExists(n) => (negs[n].final_price # {} <=> negs[n].status = "ACCEPTED")

\* C28: responded_at is null exactly on PENDING rows
RespondedAtIffNotPending ==
  \A n \in NegIds :
    RowExists(n) => (negs[n].responded_at = {} <=> negs[n].status = "PENDING")

\* C27: a step that creates bookings lowers available_seats by exactly the
\* seats booked, every booking it creates is CONFIRMED with seats_booked =
\* seats_requested and total_price = final_price * seats_requested, and
\* afterwards the trip is FULL exactly when available_seats is 0
ConversionExact ==
  [][LET made == bookings' (-) bookings
     IN  bookings' # bookings
           => /\ trip'.available_seats
                   = trip.available_seats
                     - BagCardinality([b \in BagToSet(made) |-> made[b] * b.seats_booked])
              /\ \A b \in BagToSet(made) :
                   /\ b.status = "CONFIRMED"
                   /\ b.seats_booked = negs'[b.neg].seats_requested
                   /\ \A v \in negs'[b.neg].final_price :
                        b.total_price = v * b.seats_booked
              /\ trip'.status = "FULL" <=> trip'.available_seats = 0]_vars

\* C29: after setup_auto_accept_rules(driver, rules) has succeeded,
\* get_auto_accept_settings returns those rules
AutoAcceptRulesStored ==
  [][\A d \in Drivers, rules \in SetupChoices :
       setup_auto_accept_rules(d, rules) => settings' = rules]_vars

\* ---- validate_password_strength ----

MIN_PASSWORD_LENGTH == 12

\* a password is a sequence of characters; the characters used here
UpperChars == {"A", "B", "O", "Q"}

LowerChars == {"a", "b", "o", "q", "x"}

DigitChars == {"5", "7"}

\* characters of "!@#$%^&*()_+-=[]{}|;:,.<>?" used here
SpecialChars == {"!", "@"}

\* str.lower, character by character
lower(s) ==
  [i \in 1..Len(s) |->
     CASE s[i] = "A" -> "a"
       [] s[i] = "B" -> "b"
       [] s[i] = "O" -> "o"
       [] s[i] = "Q" -> "q"
       [] OTHER -> s[i]]

\* sub in s
Contains(sub, s) ==
  \E i \in 0..(Len(s) - Len(sub)) : SubSeq(s, i + 1, i + Len(sub)) = sub

\* email.split("@")[0]
LocalPart(email) ==
  LET ats == {i \in 1..Len(email) : email[i] = "@"}
  IN  IF ats = {} THEN email
      ELSE SubSeq(email, 1, (CHOOSE i \in ats : \A j \in ats : i <= j) - 1)

\* a validation that would also refuse a name of three characters
validate_password_strength_short_names(pw, info) ==
  IF Len(pw) < MIN_PASSWORD_LENGTH THEN "too_short"
  ELSE IF ~\E i \in 1..Len(pw) : pw[i] \in UpperChars THEN "no_uppercase"
  ELSE IF ~\E i \in 1..Len(pw) : pw[i] \in LowerChars THEN "no_lowercase"
  ELSE IF ~\E i \in 1..Len(pw) : pw[i] \in DigitChars THEN "no_number"
  ELSE IF ~\E i \in 1..Len(pw) : pw[i] \in SpecialChars THEN "no_special"
  ELSE IF ~info.given THEN "ok"
  ELSE IF info.email # <<>> /\ Contains(LocalPart(lower(info.email)), lower(pw))
       THEN "contains_email"
  ELSE IF info.name # <<>> /\ Len(info.name) >= 3
            /\ Contains(lower(info.name), lower(pw))
       THEN "contains_name"
  ELSE "ok"

\* the rule validate_password_strength raises for, or "ok"
validate_password_strength(pw, info) ==
  IF Len(pw) < MIN_PASSWORD_LENGTH THEN "too_short"
  ELSE IF ~\E i \in 1..Len(pw) : pw[i] \in UpperChars THEN "no_uppercase"
  ELSE IF ~\E i \in 1..Len(pw) : pw[i] \in LowerChars THEN "no_lowercase"
  ELSE IF ~\E i \in 1..Len(pw) : pw[i] \in DigitChars THEN "no_number"
  ELSE IF ~\E i \in 1..Len(pw) : pw[i] \in SpecialChars THEN "no_special"
  ELSE IF ~info.given THEN "ok"
  ELSE IF info.email # <<>> /\ Contains(LocalPart(lower(info.email)), lower(pw))
       THEN "contains_email"
  ELSE IF info.name # <<>> /\ Len(info.name) > 3
            /\ Contains(lower(info.name), lower(pw))
       THEN "contains_name"
  ELSE "ok"

\* passwords put together from a run of one character, an optional uppercase
\* letter, lowercase letter, digit and special character, and an optional
\* word
FillerChars == {"x", "7", "Q", "~"}

FillerLengths == {4, 8, 12}

PasswordWords == {<<>>, <<"a", "B">>, <<"b", "O", "B">>, <<"b", "O", "B", "a">>}

PasswordChoices ==
  {[i \in 1..k |-> c] \o up \o lo \o dg \o sp \o word :
     c \in FillerChars, k \in FillerLengths,
     up \in {<<>>, <<"A">>}, lo \in {<<>>, <<"q">>}, dg \in {<<>>, <<"5">>},
     sp \in {<<>>, <<"!">>, <<"~">>}, word \in PasswordWords}

UserInfos ==
  {NoUserInfo} \cup
  {[given |-> TRUE, email |-> e, name |-> n] :
     e \in {<<"A", "b", "@", "q">>, <<"x", "o", "@", "q">>, <<>>},
     n \in {<<"B", "o", "b", "a">>, <<"B", "o", "b">>, <<>>}}

InitPassword ==
  /\ trip = TripInit
  /\ negs = [n \in NegIds |-> NoNeg]
  /\ bookings = EmptyBag
  /\ now = 0
  /\ tx = [w \in Workers |-> IdleTx]
  /\ reply = NoReply
  /\ races = 0
  /\ settings = get_auto_accept_settings
  /\ admins = [a \in AdminIds |-> NoAdmin]
  /\ mfa_tokens = {}
  /\ password \in PasswordChoices
  /\ user_info \in UserInfos

\* one call of validate_password_strength: it returns, or raises 400
ValidatePassword ==
  /\ reply = NoReply
  /\ reply' = Answer("validate", validate_password_strength(password, user_info))
  /\ UNCHANGED <<trip, negs, bookings, now, tx, races, settings, authVars>>

SpecPassword == InitPassword /\ [][ValidatePassword]_vars

\* C26: validate_password_strength accepts a password exactly when it has at
\* least 12 characters, an uppercase letter, a lowercase letter, a digit and
\* a special character and, when user info is given, contains neither the
\* local part of the email nor a name of more than 3 characters, whatever
\* the case of the letters; otherwise the error names the first rule that
\* fails
PasswordAcceptedIffStrong ==
  LET pw == password
      long == Len(pw) >= 12
      upper == \E i \in 1..Len(pw) : pw[i] \in UpperChars
      lowerc == \E i \in 1..Len(pw) : pw[i] \in LowerChars
      digit == \E i \in 1..Len(pw) : pw[i] \in DigitChars
      special == \E i \in 1..Len(pw) : pw[i] \in SpecialChars
      noEmail == (user_info.given /\ user_info.email # <<>>)
                   => ~Contains(lower(LocalPart(user_info.email)), lower(pw))
      noName == (user_info.given /\ Len(user_info.name) > 3)
                   => ~Contains(lower(user_info.name), lower(pw))
      firstFailed == IF ~long THEN "too_short"
                     ELSE IF ~upper THEN "no_uppercase"
                     ELSE IF ~lowerc THEN "no_lowercase"
                     ELSE IF ~digit THEN "no_number"
                     ELSE IF ~special THEN "no_special"
                     ELSE IF ~noEmail THEN "contains_email"
                     ELSE IF ~noName THEN "contains_name"
                     ELSE "ok"
      verdict == validate_password_strength(password, user_info)
  IN  /\ verdict = "ok"
           <=> long /\ upper /\ lowerc /\ digit /\ special /\ noEmail /\ noName
      /\ verdict = firstFailed
      /\ reply.kind = "http"
           => reply.status = IF verdict = "ok" THEN 200 ELSE 400

\* a password that is long enough and has all four kinds of character was
\* refused because it contains the user's name in another case, and one that
\* contains only a name of three characters was accepted
NameRuleDecided ==
  /\ reply.kind = "http"
  /\ user_info.given
  /\ Contains(lower(user_info.name), lower(password))
  /\ user_info.email # <<>>
  /\ ~Contains(lower(LocalPart(user_info.email)), lower(password))
  /\ ~Contains(user_info.name, password)
  /\ \/ Len(user_info.name) > 3 /\ reply.status = 400
            /\ validate_password_strength(password, user_info) = "contains_name"
     \/ Len(user_info.name) = 3 /\ reply.status = 200

\* ---- admin bootstrap, login and MFA ----

ACCOUNT_LOCKOUT_ATTEMPTS == 5

\* minutes
ACCOUNT_LOCKOUT_DURATION == 30

\* the clock counts hours; locked_until is kept in minutes
MinutesPerHour == 60

\* the email address and the full name an admin id stands for
AdminEmail(a) ==
  IF a = "a1" THEN <<"A", "b", "@", "q">> ELSE <<"x", "o", "@", "q">>

AdminName(a) ==
  IF a = "a1" THEN <<"B", "o", "b", "a">> ELSE <<"B", "o", "b">>

\* password and confirm_password of a bootstrap request
StrongPassword == [i \in 1..12 |-> "x"] \o <<"A", "5", "!">>

WeakPassword == <<"x", "A", "5", "!">>

BootstrapPasswords == {StrongPassword, WeakPassword}

\* the six-digit codes a verify-mfa request may carry
MfaCodes == {"c1", "c2"}

\* get_admin_count: the users rows with role ADMIN or SUPER_ADMIN
RECURSIVE SumRows(_, _)
SumRows(S, f) ==
  IF S = {} THEN 0
  ELSE LET a == CHOOSE x \in S : TRUE IN f[a].rows + SumRows(S \ {a}, f)

get_admin_count == SumRows(AdminIds, admins)

\* bootstrap_first_admin up to its INSERT, on what the session reads
BootstrapOutcome(e, pw, confirm) ==
  IF get_admin_count > 0 THEN "admin_exists"
  ELSE IF pw # confirm THEN "passwords_differ"
  ELSE IF validate_password_strength(
            pw, [given |-> TRUE, email |-> AdminEmail(e), name |-> AdminName(e)]) # "ok"
       THEN "weak_password"
  ELSE "ok"

RefuseBootstrap(e, pw, confirm) ==
  /\ BootstrapOutcome(e, pw, confirm) # "ok"
  /\ Refuse("bootstrap", BootstrapOutcome(e, pw, confirm))

\* the request has counted the admins and found none
BeginBootstrap(w, e, pw, confirm) ==
  /\ Free(w)
  /\ BootstrapOutcome(e, pw, confirm) = "ok"
  /\ tx' = [tx EXCEPT ![w] = [IdleTx EXCEPT !.op = "bootstrap", !.actor = e]]
  /\ Overlap
  /\ UNCHANGED <<trip, negs, bookings, now, reply>>

\* create_bootstrap_admin inserts the SUPER_ADMIN row and get_db commits;
\* users.email carries no unique constraint
FinishBootstrap(w) ==
  /\ tx[w].op = "bootstrap"
  /\ tx' = [tx EXCEPT ![w] = IdleTx]
  /\ admins' = [admins EXCEPT ![tx[w].actor].rows = @ + 1]
  /\ reply' = Answer("bootstrap", "ok")
  /\ UNCHANGED <<trip, negs, bookings, now, races, settings, mfa_tokens,
                 password, user_info>>

\* check_account_lockout on the row of an admin
check_account_lockout(rec) ==
  \E t \in rec.locked_until : t > now * MinutesPerHour

\* the row as record_failed_login flushes it
record_failed_login(rec) ==
  LET attempts == rec.failed_login_attempts + 1
  IN  [rec EXCEPT !.failed_login_attempts = attempts,
                  !.locked_until =
                     IF attempts >= ACCOUNT_LOCKOUT_ATTEMPTS
                     THEN {now * MinutesPerHour + ACCOUNT_LOCKOUT_DURATION}
                     ELSE @]

\* create_mfa_token: AdminMFAToken has no attributes expires_at_tz and
\* created_at_tz, so its constructor raises TypeError before any INSERT
create_mfa_token(e) == "TypeError"

\* verify_mfa_token: the query names AdminMFAToken.expires_at_tz, which the
\* class does not have, so building it raises AttributeError
verify_mfa_token(code) == "AttributeError"

\* what admin_login answers for email e and a correct or wrong password;
\* get_admin_by_email raises MultipleResultsFound when two rows carry the
\* email; on a locked account the router raises 423 after log_admin_action
\* has flushed a details dictionary that holds a datetime
LoginOutcomes(e, correct) ==
  LET rec == admins[e]
  IN  IF rec.rows > 1 THEN {"error"}
      ELSE IF rec.rows = 1 /\ check_account_lockout(rec) THEN {"locked", "error"}
      ELSE IF rec.rows = 0 \/ ~correct THEN {"unauthorized"}
      ELSE IF create_mfa_token(e) = "TypeError" THEN {"error"}
      ELSE {"ok"}

\* the users rows as the session of admin_login holds them when the handler
\* returns or raises
LoginSession(e, outcome) ==
  IF outcome = "unauthorized" /\ admins[e].rows = 1
  THEN [admins EXCEPT ![e] = record_failed_login(admins[e])]
  ELSE admins

\* get_db commits the session when the handler returned and rolls it back
\* when it raised, HTTPException included
Committed(outcome, session, stored) ==
  IF outcome = "ok" THEN session ELSE stored

admin_login(e, correct) ==
  /\ \E w \in Workers : Free(w)
  /\ \E outcome \in LoginOutcomes(e, correct), code \in MfaCodes :
       /\ reply' = Answer("login", outcome)
       /\ admins' = Committed(outcome, LoginSession(e, outcome), admins)
       /\ mfa_tokens' = Committed(outcome,
                                  mfa_tokens \cup {[admin |-> e, code |-> code]},
                                  mfa_tokens)
  /\ UNCHANGED <<trip, negs, bookings, now, tx, races, settings, password,
                 user_info>>

\* verify_admin_mfa turns the exception of verify_mfa_token into a 500
VerifyOutcome(code) ==
  IF verify_mfa_token(code) = "AttributeError" THEN "error"
  ELSE IF \E t \in mfa_tokens : t.code = code THEN "ok"
  ELSE "unauthorized"

verify_admin_mfa(code) ==
  /\ \E w \in Workers : Free(w)
  /\ reply' = Answer("verify", VerifyOutcome(code))
  /\ UNCHANGED <<trip, negs, bookings, now, tx, races, settings, authVars>>

InitAuth ==
  /\ trip = TripInit
  /\ negs = [n \in NegIds |-> NoNeg]
  /\ bookings = EmptyBag
  /\ now = 0
  /\ tx = [w \in Workers |-> IdleTx]
  /\ reply = NoReply
  /\ races = 0
  /\ settings = get_auto_accept_settings
  /\ NoAuthState

NextAuth ==
  \/ \E e \in AdminIds, pw \in BootstrapPasswords, confirm \in BootstrapPasswords :
       RefuseBootstrap(e, pw, confirm)
  \/ \E w \in Workers, e \in AdminIds, pw \in BootstrapPasswords :
       BeginBootstrap(w, e, pw, pw)
  \/ \E w \in Workers : FinishBootstrap(w)
  \/ \E e \in AdminIds, correct \in BOOLEAN : admin_login(e, correct)
  \/ \E code \in MfaCodes : verify_admin_mfa(code)
  \/ Tick

SpecAuth == InitAuth /\ [][NextAuth]_vars

\* C24: after any sequence of bootstrap calls, two concurrent ones included,
\* at most one admin has been created by bootstrap
BootstrapCreatesOneAdmin == get_admin_count <= 1

\* C25: a verify-mfa call whose code is not that of an unused, unexpired
\* token issued by a successful login is rejected with 401 and issues no
\* access token
MfaRejectsUnknownCode ==
  [][\A code \in MfaCodes :
       (verify_admin_mfa(code) /\ ~\E t \in mfa_tokens : t.code = code)
         => reply'.status = 401]_vars

\* C30: a failed admin_login for the email of an existing admin whose
\* account is not locked is counted: the stored failed_login_attempts goes
\* up by one, and the fifth sets locked_until
FailedLoginCounted ==
  [][\A e \in AdminIds :
       (/\ admins[e].rows = 1
        /\ ~check_account_lockout(admins[e])
        /\ admin_login(e, FALSE))
         => admins'[e] = record_failed_login(admins[e])]_vars

====
